---- MODULE Spec2Model ----
(***************************************************************************)
(* Model of revenue_leakage_detector.py: the one-shot pipeline             *)
(*   load_data -> compute_statistics -> print summary ->                   *)
(*   plot_leakage_histogram -> print "saved"                               *)
(* run by main(), together with the environment it touches: the CSV        *)
(* source, the directory tree under the output path, the console and       *)
(* pyplot's global list of open figures.                                   *)
(*                                                                         *)
(* A numeric cell is an optional integer: <<>> is pandas' NaN ("missing"), *)
(* <<n>> is the number n.  A raw CSV cell is a sequence of characters.     *)
(* Amounts are whole numbers (no fractional currency, no infinities); the  *)
(* mean is kept as an exact reduced fraction <<num, den>>.                 *)
(***************************************************************************)
EXTENDS Integers, Sequences, FiniteSets, TLC

\* ---------------------------------------------------------------- bounds
MaxRows == 2   \* rows of the input table
MaxRuns == 2   \* times main() is run on the same input

\* ------------------------------------------------------ program constants
Bins == 15     \* plt.hist(leakage, bins=15)

Columns == {"tenure", "MonthlyCharges", "TotalCharges"}

\* ------------------------------------------------------------ input space
\* A character is a one-letter string.
\* Raw rows the input table is built from: <<tenure, MonthlyCharges, TotalCharges>>
\* as the text of the CSV cells.
RawRows ==
  { << <<"1","0">>, <<"5","0">>, <<"4","5","0">> >>,   \* 10, 50, 450   leakage  50
    << <<"4">>,     <<"1","0">>, <<"1","0">> >>,       \*  4, 10,  10   leakage  30
    << <<"4">>,     <<"1","0">>, <<"5","0">> >>,       \*  4, 10,  50   leakage -10
    << <<"4">>,     <<"1","0">>, <<"4","0">> >>,       \*  4, 10,  40   leakage   0
    << <<"2">>,     <<"-","5">>, <<"+","3">> >>,       \*  2, -5,  +3   leakage -13
    << <<"5">>,     <<"2","0">>, <<"N","A">> >>,       \* TotalCharges unparseable
    << <<"x">>,     <<"2","0">>, <<"1","0">> >>,       \* tenure unparseable
    << <<"5">>,     <<>>,        <<"1","0">> >>,       \* MonthlyCharges empty
    << <<>>,        <<"-">>,     <<"1","a">> >> }      \* nothing parses

RawRecord(cols, r) ==
  [c \in cols |-> IF c = "tenure" THEN r[1]
                  ELSE IF c = "MonthlyCharges" THEN r[2] ELSE r[3]]

RECURSIVE TablesOfLen(_, _)
TablesOfLen(cols, n) ==
  IF n = 0 THEN { <<>> }
  ELSE { Append(t, RawRecord(cols, r)) : t \in TablesOfLen(cols, n - 1), r \in RawRows }

Tables(cols) == UNION { TablesOfLen(cols, n) : n \in 0..MaxRows }

\* Column sets a CSV file may carry: all three, or one of them absent.
Schemas == { Columns } \cup { Columns \ {c} : c \in Columns }

\* Paths are sequences of components relative to the working directory;
\* <<>> is the working directory itself.
MainOutputPath == <<"output", "revenue_leakage_hist.png">>
OutputPaths == { MainOutputPath,
                 <<"hist.png">>,
                 <<"output", "plots", "hist.png">> }

Cwd == <<>>
OutputDir == <<"output">>

\* ------------------------------------------------------------- the state
VARIABLES
  csv,         \* the input source: [readable, columns, rows]
  output_path, \* where the histogram is to be saved
  dirs,        \* directories that exist
  readonly,    \* directories in which nothing can be created or written
  files,       \* image files written: set of <<path, image>>
  df,          \* <<>> or <<table>>: the DataFrame main holds
  stats,       \* <<>> or <<dict>>: what compute_statistics returned
  stdout,      \* lines printed by this run
  figs,        \* pyplot's open figures, the current one last; a figure is
               \* the sequence of histograms drawn on it
  image,       \* <<>> or <<figure>>: the figure this run rendered
  pc,          \* position in main()
  error,       \* the exception that ended the run, "" if none
  run,         \* number of the current run of main()
  prev         \* <<>> or <<[stats, image, error]>>: what the previous run produced

vars == << csv, output_path, dirs, readonly, files, df, stats, stdout,
           figs, image, pc, error, run, prev >>

\* ------------------------------------------------------- optional numbers
NaN == <<>>
Num(n) == <<n>>
IsNa(x) == x = NaN
Val(x) == x[1]

\* ------------------------------------------- pd.to_numeric(errors='coerce')
Digits == {"0","1","2","3","4","5","6","7","8","9"}

DigitVal(c) ==
  CASE c = "0" -> 0 [] c = "1" -> 1 [] c = "2" -> 2 [] c = "3" -> 3
    [] c = "4" -> 4 [] c = "5" -> 5 [] c = "6" -> 6 [] c = "7" -> 7
    [] c = "8" -> 8 [] c = "9" -> 9

RECURSIVE DigitsValue(_, _)
\* the value of a digit string, most significant digit first
DigitsValue(s, acc) ==
  IF s = <<>> THEN acc
  ELSE DigitsValue(Tail(s), 10 * acc + DigitVal(Head(s)))

AllDigits(s) == s # <<>> /\ \A i \in DOMAIN s : s[i] \in Digits

\* faulty variant: an unparseable cell becomes 0 (fillna(0)) instead of NaN
ToNumericFillZero(cell) ==
  IF cell # <<>> /\ Head(cell) \in {"-", "+"} /\ AllDigits(Tail(cell))
    THEN Num((IF Head(cell) = "-" THEN -1 ELSE 1) * DigitsValue(Tail(cell), 0))
  ELSE IF AllDigits(cell) THEN Num(DigitsValue(cell, 0))
  ELSE Num(0)

\* pd.to_numeric(column, errors='coerce') on one cell
ToNumeric(cell) ==
  IF cell # <<>> /\ Head(cell) \in {"-", "+"} /\ AllDigits(Tail(cell))
    THEN Num((IF Head(cell) = "-" THEN -1 ELSE 1) * DigitsValue(Tail(cell), 0))
  ELSE IF AllDigits(cell) THEN Num(DigitsValue(cell, 0))
  ELSE NaN

\* ------------------------------------------------- NaN-propagating arithmetic
Mul(a, b) == IF IsNa(a) \/ IsNa(b) THEN NaN ELSE Num(Val(a) * Val(b))

\* faulty variant: operands swapped (TotalCharges - ExpectedRevenue)
SubReversed(a, b) == IF IsNa(a) \/ IsNa(b) THEN NaN ELSE Num(Val(b) - Val(a))

Sub(a, b) == IF IsNa(a) \/ IsNa(b) THEN NaN ELSE Num(Val(a) - Val(b))

\* ------------------------------------------------------------- load_data
EnrichRow(raw) ==
  LET m == ToNumeric(raw.MonthlyCharges)
      t == ToNumeric(raw.tenure)
      c == ToNumeric(raw.TotalCharges)
      e == Mul(t, m)
  IN [ tenure |-> t, MonthlyCharges |-> m, TotalCharges |-> c,
       ExpectedRevenue |-> e, RevenueLeakage |-> Sub(e, c) ]

\* load_data with the failure swallowed: an empty table instead of an exception
LoadDataSwallow(src) ==
  IF ~src.readable \/ ~(Columns \subseteq src.columns)
    THEN [ok |-> TRUE, error |-> "", table |-> <<>>]
  ELSE [ok |-> TRUE, error |-> "",
        table |-> [i \in DOMAIN src.rows |-> EnrichRow(src.rows[i])]]

\* The outcome of load_data(csv_path): the enriched table, or the exception
\* that pd.read_csv / the column lookup raises.
LoadData(src) ==
  IF ~src.readable
    THEN [ok |-> FALSE, error |-> "FileNotFoundError", table |-> <<>>]
  ELSE IF ~(Columns \subseteq src.columns)
    THEN [ok |-> FALSE, error |-> "KeyError", table |-> <<>>]
  ELSE [ok |-> TRUE, error |-> "",
        table |-> [i \in DOMAIN src.rows |-> EnrichRow(src.rows[i])]]

\* ---------------------------------------------------- compute_statistics
\* df['RevenueLeakage'].dropna(): the non-missing values, in row order
Column(table, name) == [i \in DOMAIN table |-> table[i][name]]

DropNa(col) == SelectSeq(col, LAMBDA x : ~IsNa(x))

RECURSIVE SeriesSum(_)
\* Series.sum(): 0 for the empty series
SeriesSum(s) == IF s = <<>> THEN 0 ELSE Val(Head(s)) + SeriesSum(Tail(s))

Abs(n) == IF n < 0 THEN -n ELSE n

RECURSIVE Gcd(_, _)
Gcd(a, b) == IF b = 0 THEN a ELSE Gcd(b, a % b)

\* the exact quotient n / d (d > 0) as a reduced fraction
Frac(n, d) == LET g == Gcd(Abs(n), d) IN << n \div g, d \div g >>

\* faulty variant: the mean taken over all rows of the table
SeriesMeanOverAllRows(s, nrows) ==
  IF nrows = 0 THEN NaN ELSE << Frac(SeriesSum(s), nrows) >>

\* faulty variant: 0 instead of NaN for the empty series
SeriesMeanZeroWhenEmpty(s) ==
  IF s = <<>> THEN << <<0, 1>> >> ELSE << Frac(SeriesSum(s), Len(s)) >>

\* Series.mean(): NaN for the empty series, else sum / count
SeriesMean(s) == IF s = <<>> THEN NaN ELSE << Frac(SeriesSum(s), Len(s)) >>

\* faulty variant: >= instead of >
CountPositiveOrZero(s) == Cardinality({ i \in DOMAIN s : Val(s[i]) >= 0 })

\* (leakage > 0).sum()
CountPositive(s) == Cardinality({ i \in DOMAIN s : Val(s[i]) > 0 })

\* faulty variant: average over total_records
ComputeStatisticsMeanOverRecords(table) ==
  LET leakage == DropNa(Column(table, "RevenueLeakage"))
  IN [ total_records          |-> Len(table),
       total_leakage          |-> SeriesSum(leakage),
       average_leakage        |-> SeriesMeanOverAllRows(leakage, Len(table)),
       positive_leakage_count |-> CountPositive(leakage) ]

\* faulty variant: total_records counted after the dropna
ComputeStatisticsCountFiltered(table) ==
  LET leakage == DropNa(Column(table, "RevenueLeakage"))
  IN [ total_records          |-> Len(leakage),
       total_leakage          |-> SeriesSum(leakage),
       average_leakage        |-> SeriesMean(leakage),
       positive_leakage_count |-> CountPositive(leakage) ]

\* compute_statistics(df)
ComputeStatistics(table) ==
  LET leakage == DropNa(Column(table, "RevenueLeakage"))
  IN [ total_records          |-> Len(table),
       total_leakage          |-> SeriesSum(leakage),
       average_leakage        |-> SeriesMean(leakage),
       positive_leakage_count |-> CountPositive(leakage) ]

\* ------------------------------------------------- plt.hist(leakage, bins=15)
SeqMin(s) == CHOOSE x \in { Val(s[i]) : i \in DOMAIN s } :
               \A j \in DOMAIN s : x <= Val(s[j])
SeqMax(s) == CHOOSE x \in { Val(s[i]) : i \in DOMAIN s } :
               \A j \in DOMAIN s : x >= Val(s[j])

\* The bin (1..Bins) a value falls in: Bins equal-width bins over [lo, hi],
\* the last one closed on the right.  When lo = hi the range is widened to
\* [lo - 1/2, hi + 1/2], so every value lies at relative offset 1/2.
BinOf(x, lo, hi) ==
  IF lo = hi THEN (Bins \div 2) + 1
  ELSE IF x = hi THEN Bins
  ELSE (((x - lo) * Bins) \div (hi - lo)) + 1

\* the bin counts of a series of non-missing values
Histogram(s) ==
  IF s = <<>> THEN [b \in 1..Bins |-> 0]
  ELSE LET lo == SeqMin(s)
           hi == SeqMax(s)
       IN [b \in 1..Bins |->
             Cardinality({ i \in DOMAIN s : BinOf(Val(s[i]), lo, hi) = b })]

\* ------------------------------------------------------ pyplot's figures
\* faulty variant: plt.figure(1), which reuses figure 1 when it is still open
PltFigureReuse(fs) == IF fs = <<>> THEN << <<>> >> ELSE fs

\* plt.figure(): a new, empty figure becomes the current one
PltFigure(fs) == Append(fs, <<>>)

\* plt.hist draws on the current figure (creating one if none is open)
PltHist(fs, h) ==
  IF fs = <<>> THEN << <<h>> >>
  ELSE [fs EXCEPT ![Len(fs)] = Append(@, h)]

\* the image plt.savefig would write: what is drawn on the current figure
PltCurrent(fs) == fs[Len(fs)]

\* plt.close(): the current figure is destroyed
PltClose(fs) == SubSeq(fs, 1, Len(fs) - 1)

\* -------------------------------------------------------- the file system
\* os.path.dirname(output_path): '' (here <<>>) for a bare file name
Dirname(p) == SubSeq(p, 1, Len(p) - 1)

Prefixes(d) == { SubSeq(d, 1, k) : k \in 1..Len(d) }

\* os.makedirs(d, exist_ok=True).  d = '' raises FileNotFoundError.  Missing
\* directories are created from the outermost inwards; the first of them
\* needs a writable parent, the others are created inside new directories.
MakeDirs(ds, ro, d) ==
  IF d = <<>>
    THEN [ok |-> FALSE, error |-> "FileNotFoundError", dirs |-> ds]
  ELSE LET missing == Prefixes(d) \ ds
       IN IF missing = {} THEN [ok |-> TRUE, error |-> "", dirs |-> ds]
          ELSE LET first == CHOOSE m \in missing :
                              \A o \in missing : Len(m) <= Len(o)
               IN IF Dirname(first) \in ro
                    THEN [ok |-> FALSE, error |-> "PermissionError", dirs |-> ds]
                  ELSE [ok |-> TRUE, error |-> "", dirs |-> ds \cup missing]

\* ------------------------------------------------- plot_leakage_histogram
\* The outcome of plot_leakage_histogram(df, output_path) in a given
\* environment: the figures left open, the directories and files
\* afterwards, and the exception raised if any.
PlotLeakageHistogram(table, path, fg, ds, ro, fl) ==
  LET leakage == DropNa(Column(table, "RevenueLeakage"))
      drawn   == PltHist(PltFigure(fg), Histogram(leakage))
      mk      == MakeDirs(ds, ro, Dirname(path))
  IN IF ~mk.ok
       THEN [ok |-> FALSE, error |-> mk.error, figs |-> drawn,
             dirs |-> mk.dirs, files |-> fl, image |-> PltCurrent(drawn)]
     ELSE IF Dirname(path) \in ro
       THEN [ok |-> FALSE, error |-> "PermissionError", figs |-> drawn,
             dirs |-> mk.dirs, files |-> fl, image |-> PltCurrent(drawn)]
     ELSE [ok |-> TRUE, error |-> "", figs |-> PltClose(drawn),
           dirs |-> mk.dirs,
           files |-> { f \in fl : f[1] # path } \cup { <<path, PltCurrent(drawn)>> },
           image |-> PltCurrent(drawn)]

\* ------------------------------------------------------------------ Init
Sources ==
  { [readable |-> FALSE, columns |-> Columns, rows |-> <<>>] } \cup
  { [readable |-> TRUE, columns |-> c, rows |-> t] :
      c \in Schemas, t \in Tables(Columns) }

Init ==
  /\ csv \in { [s EXCEPT !.rows = [i \in DOMAIN s.rows |->
                                     [c \in s.columns |-> s.rows[i][c]]]] :
               s \in Sources }
  /\ output_path \in OutputPaths
  /\ dirs \in { {Cwd}, {Cwd, OutputDir} }
  /\ readonly \in { ro \in SUBSET dirs : Cardinality(ro) <= 1 }
  /\ files = {}
  /\ df = <<>>
  /\ stats = <<>>
  /\ stdout = <<>>
  /\ figs = <<>>
  /\ image = <<>>
  /\ pc = "start"
  /\ error = ""
  /\ run = 1
  /\ prev = <<>>

\* ------------------------------------------------------- the steps of main
\* df = load_data(data_path)
Load ==
  /\ pc = "start"
  /\ LET r == LoadData(csv)
     IN IF r.ok
          THEN /\ df' = << r.table >>
               /\ pc' = "loaded"
               /\ error' = error
          ELSE /\ df' = df
               /\ pc' = "failed"
               /\ error' = r.error
  /\ UNCHANGED << csv, output_path, dirs, readonly, files, stats, stdout,
                  figs, image, run, prev >>

\* stats = compute_statistics(df)
Compute ==
  /\ pc = "loaded"
  /\ stats' = << ComputeStatistics(df[1]) >>
  /\ pc' = "computed"
  /\ UNCHANGED << csv, output_path, dirs, readonly, files, df, stdout,
                  figs, image, error, run, prev >>

\* the five print calls of the summary
PrintSummary ==
  /\ pc = "computed"
  /\ stdout' = stdout \o
       << << "Revenue Leakage Summary:" >>,
          << "Total customers:", stats[1].total_records >>,
          << "Total leakage:", stats[1].total_leakage >>,
          << "Average leakage per customer:", stats[1].average_leakage >>,
          << "Customers with positive leakage:", stats[1].positive_leakage_count >> >>
  /\ pc' = "printed"
  /\ UNCHANGED << csv, output_path, dirs, readonly, files, df, stats,
                  figs, image, error, run, prev >>

\* plot_leakage_histogram(df, output_path)
Plot ==
  /\ pc = "printed"
  /\ LET r == PlotLeakageHistogram(df[1], output_path, figs, dirs, readonly, files)
     IN /\ figs' = r.figs
        /\ dirs' = r.dirs
        /\ files' = r.files
        /\ image' = << r.image >>
        /\ error' = r.error
        /\ pc' = IF r.ok THEN "plotted" ELSE "failed"
  /\ UNCHANGED << csv, output_path, readonly, df, stats, stdout, run, prev >>

\* print(f"Histogram saved to {output_path}")
PrintSaved ==
  /\ pc = "plotted"
  /\ stdout' = Append(stdout, << "Histogram saved to", output_path >>)
  /\ pc' = "done"
  /\ UNCHANGED << csv, output_path, dirs, readonly, files, df, stats,
                  figs, image, error, run, prev >>

\* main() is run again on the same input, in the environment the previous
\* run left behind (directories, files, open figures).
Rerun ==
  /\ pc \in {"done", "failed"}
  /\ run < MaxRuns
  /\ prev' = << [stats |-> stats, image |-> image, error |-> error] >>
  /\ run' = run + 1
  /\ pc' = "start"
  /\ df' = <<>>
  /\ stats' = <<>>
  /\ stdout' = <<>>
  /\ image' = <<>>
  /\ error' = ""
  /\ UNCHANGED << csv, output_path, dirs, readonly, files, figs >>

Next == Load \/ Compute \/ PrintSummary \/ Plot \/ PrintSaved \/ Rerun

Spec == Init /\ [][Next]_vars

\* =================================================================== claims
\* Vocabulary of the claims, stated on the raw input and on the state.

\* the text of a cell is a number: an optional sign followed by digits
IsNumberText(cell) ==
  /\ cell # <<>>
  /\ \A i \in 2..Len(cell) : cell[i] \in Digits
  /\ \/ cell[1] \in Digits
     \/ cell[1] \in {"-", "+"} /\ Len(cell) >= 2

SourceOk == csv.readable /\ Columns \subseteq csv.columns
Loaded == df # <<>>
Table == df[1]
Computed == stats # <<>>
Stats == stats[1]
Rows == DOMAIN Table
Raw(i) == csv.rows[i]
Leak(i) == Table[i].RevenueLeakage
NonMissing == { i \in Rows : Leak(i) # NaN }

RECURSIVE LeakSum(_)
\* the sum of the leakage of a set of rows with non-missing leakage
LeakSum(I) ==
  IF I = {} THEN 0
  ELSE LET i == CHOOSE j \in I : TRUE IN Leak(i)[1] + LeakSum(I \ {i})

\* ---------------------------------------------------------------------- C1
\* C1 as stated: in the loaded table, every row with any of tenure,
\* MonthlyCharges, TotalCharges missing or unparseable has BOTH
\* ExpectedRevenue and RevenueLeakage missing.
C1_BothDerivedMissing ==
  Loaded =>
    \A i \in Rows :
      ( \/ ~IsNumberText(Raw(i).tenure)
        \/ ~IsNumberText(Raw(i).MonthlyCharges)
        \/ ~IsNumberText(Raw(i).TotalCharges) )
      => Table[i].ExpectedRevenue = NaN /\ Table[i].RevenueLeakage = NaN

\* C1 amended: a row with tenure or MonthlyCharges missing or unparseable has
\* both derived fields missing; a row with TotalCharges missing or unparseable
\* has RevenueLeakage missing, while its ExpectedRevenue is still
\* tenure * MonthlyCharges when those two are numbers.  A missing value is
\* never replaced by a number.
C1_MissingPropagates ==
  Loaded =>
    \A i \in Rows :
      /\ ( ~IsNumberText(Raw(i).tenure) \/ ~IsNumberText(Raw(i).MonthlyCharges) )
           => Table[i].ExpectedRevenue = NaN /\ Table[i].RevenueLeakage = NaN
      /\ ~IsNumberText(Raw(i).TotalCharges)
           => Table[i].RevenueLeakage = NaN /\ Table[i].TotalCharges = NaN
      /\ ~IsNumberText(Raw(i).tenure) => Table[i].tenure = NaN
      /\ ~IsNumberText(Raw(i).MonthlyCharges) => Table[i].MonthlyCharges = NaN
      /\ ( /\ IsNumberText(Raw(i).tenure)
           /\ IsNumberText(Raw(i).MonthlyCharges)
           /\ ~IsNumberText(Raw(i).TotalCharges) )
           => /\ Table[i].tenure # NaN
              /\ Table[i].MonthlyCharges # NaN
              /\ Table[i].ExpectedRevenue =
                   << Table[i].tenure[1] * Table[i].MonthlyCharges[1] >>

C1_Witness ==
  /\ pc = "loaded"
  /\ \E i \in Rows :
       /\ Raw(i).TotalCharges = <<"N","A">>
       /\ Table[i].ExpectedRevenue = <<100>>
       /\ Table[i].RevenueLeakage = NaN
  /\ \E i \in Rows : ~IsNumberText(Raw(i).tenure)

\* ---------------------------------------------------------------------- C2
\* C2: in the loaded table, every row whose three source cells are numbers
\* has ExpectedRevenue = tenure * MonthlyCharges and RevenueLeakage =
\* ExpectedRevenue - TotalCharges, computed on the values of the cells;
\* the row 10, 50, 450 has expected revenue 500 and leakage 50.
C2_DerivedFields ==
  Loaded =>
    \A i \in Rows :
      /\ ( /\ IsNumberText(Raw(i).tenure)
           /\ IsNumberText(Raw(i).MonthlyCharges)
           /\ IsNumberText(Raw(i).TotalCharges) )
         => /\ Table[i].tenure # NaN
            /\ Table[i].MonthlyCharges # NaN
            /\ Table[i].TotalCharges # NaN
            /\ Table[i].ExpectedRevenue =
                 << Table[i].tenure[1] * Table[i].MonthlyCharges[1] >>
            /\ Table[i].RevenueLeakage =
                 << Table[i].ExpectedRevenue[1] - Table[i].TotalCharges[1] >>
      /\ ( /\ Raw(i).tenure = <<"1","0">>
           /\ Raw(i).MonthlyCharges = <<"5","0">>
           /\ Raw(i).TotalCharges = <<"4","5","0">> )
         => /\ Table[i].tenure = <<10>>
            /\ Table[i].MonthlyCharges = <<50>>
            /\ Table[i].TotalCharges = <<450>>
            /\ Table[i].ExpectedRevenue = <<500>>
            /\ Table[i].RevenueLeakage = <<50>>
      /\ ( /\ Raw(i).tenure = <<"2">>
           /\ Raw(i).MonthlyCharges = <<"-","5">>
           /\ Raw(i).TotalCharges = <<"+","3">> )
         => /\ Table[i].ExpectedRevenue = <<-10>>
            /\ Table[i].RevenueLeakage = <<-13>>

C2_Witness ==
  /\ pc = "done"
  /\ \E i \in Rows :
       /\ Raw(i).TotalCharges = <<"4","5","0">>
       /\ Table[i].ExpectedRevenue = <<500>>
       /\ Table[i].RevenueLeakage = <<50>>
  /\ Computed
  /\ Stats.total_records = 1
  /\ Stats.total_leakage = 50
  /\ Stats.average_leakage = << <<50, 1>> >>
  /\ Stats.positive_leakage_count = 1

\* ---------------------------------------------------------------------- C3
\* C3: when no row has a non-missing RevenueLeakage (no rows at all, or all
\* leakage missing), compute_statistics still returns: total_leakage = 0,
\* positive_leakage_count = 0, average_leakage missing, total_records = the
\* number of rows; and the run does not end in compute_statistics.
C3_EmptyLeakage ==
  /\ (Loaded /\ pc # "loaded") => Computed
  /\ (Computed /\ NonMissing = {}) =>
       /\ Stats.total_leakage = 0
       /\ Stats.positive_leakage_count = 0
       /\ Stats.average_leakage = NaN
       /\ Stats.total_records = Len(csv.rows)

C3_Witness ==
  /\ pc = "computed"
  /\ Len(csv.rows) = 1
  /\ Raw(1).tenure = <<"5">>
  /\ Raw(1).MonthlyCharges = <<"2","0">>
  /\ Raw(1).TotalCharges = <<"N","A">>
  /\ Stats.total_records = 1
  /\ Stats.average_leakage = NaN

\* ---------------------------------------------------------------------- C4
\* C4: the total_records reported after load_data equals the number of rows
\* of the input, whatever cells failed to parse: the loaded table has one
\* row per input row and total_records counts them all.
C4_TotalRecords ==
  /\ Loaded => Len(Table) = Len(csv.rows)
  /\ Computed => Stats.total_records = Len(csv.rows)

C4_Witness ==
  /\ pc = "computed"
  /\ Stats.total_records = 2
  /\ Cardinality(NonMissing) = 1
  /\ \E i \in Rows : ~IsNumberText(Raw(i).MonthlyCharges)

\* ---------------------------------------------------------------------- C5
\* C5: when some row has a non-missing leakage, total_leakage is the sum of
\* the non-missing leakages, positive_leakage_count the number of them that
\* are > 0, and average_leakage = total_leakage / (number of non-missing
\* rows); leakages 30 and -10 give total 20, average 10, positive count 1.
C5_SumMeanCount ==
  (Computed /\ NonMissing # {}) =>
    /\ Stats.total_leakage = LeakSum(NonMissing)
    /\ Stats.positive_leakage_count =
         Cardinality({ i \in NonMissing : Leak(i)[1] > 0 })
    /\ Stats.average_leakage # NaN
    /\ Stats.average_leakage[1][2] > 0
    /\ Stats.average_leakage[1][1] * Cardinality(NonMissing) =
         Stats.total_leakage * Stats.average_leakage[1][2]
    /\ ( Len(Table) = 2 /\ Leak(1) = <<30>> /\ Leak(2) = <<-10>> )
         => /\ Stats.total_leakage = 20
            /\ Stats.average_leakage = << <<10, 1>> >>
            /\ Stats.positive_leakage_count = 1

C5_Witness ==
  /\ pc = "computed"
  /\ Len(Table) = 2
  /\ Leak(1) = <<30>>
  /\ Leak(2) = <<-10>>
  /\ Stats.total_leakage = 20

\* ---------------------------------------------------------------------- C6
\* C6: positive_leakage_count <= number of rows with non-missing leakage <=
\* total_records, and only rows with a leakage > 0 are counted as positive.
C6_CountOrdering ==
  Computed =>
    /\ Stats.positive_leakage_count <= Cardinality(NonMissing)
    /\ Cardinality(NonMissing) <= Stats.total_records
    /\ Stats.positive_leakage_count <=
         Cardinality({ i \in Rows : Leak(i) # NaN /\ Leak(i)[1] > 0 })

C6_Witness ==
  /\ pc = "computed"
  /\ \E i \in Rows : Leak(i) = <<0>>
  /\ \E i \in Rows : Leak(i) = NaN
  /\ Stats.positive_leakage_count = 0
  /\ Stats.total_records = 2

\* ---------------------------------------------------------------------- C7
\* C7: when the source cannot be read or lacks a required column, the run
\* fails in load_data and no step ever produces output: nothing is printed,
\* no statistics are computed, no directory is created, no image is drawn
\* or written.
C7_AbortBeforeOutput ==
  [][ ~SourceOk =>
        /\ pc' \in {"start", "failed"}
        /\ stdout' = <<>>
        /\ stats' = <<>>
        /\ df' = <<>>
        /\ dirs' = dirs
        /\ files' = files
        /\ figs' = figs
        /\ image' = <<>> ]_vars

C7_Witness ==
  /\ pc = "failed"
  /\ error = "KeyError"
  /\ run = 2
  /\ prev = << [stats |-> <<>>, image |-> <<>>, error |-> "KeyError"] >>
  /\ stdout = <<>>
  /\ Len(csv.rows) = 2

\* ---------------------------------------------------------------------- C8
\* C8 as stated: when main (or plot_leakage_histogram in it) has terminated,
\* normally or with an exception, no figure opened for the histogram is
\* still open.
C8_FigureReleased ==
  pc \in {"done", "failed"} => figs = <<>>

\* ---------------------------------------------------------------------- C9
\* C9: a second run on the same input ends with the same statistics and the
\* same histogram as the first, whatever the first left behind; and the table
\* main holds stays what load_data returned through compute_statistics and
\* plot_leakage_histogram.
C9_Idempotent ==
  /\ (prev # <<>> /\ pc \in {"done", "failed"}) =>
        /\ stats = prev[1].stats
        /\ image = prev[1].image
  /\ image # <<>> => image[1] = << Histogram(DropNa(Column(Table, "RevenueLeakage"))) >>
  /\ Loaded => Table = LoadData(csv).table

C9_Witness ==
  /\ run = 2
  /\ pc = "done"
  /\ Len(Table) = 2
  /\ Leak(1) = <<30>>
  /\ Leak(2) = <<-10>>
  /\ image[1][1][1] = 1
  /\ image[1][1][Bins] = 1
  /\ image = prev[1].image

\* --------------------------------------------------------------------- C10
\* the deepest directory on the way to d that exists
DeepestExisting(d) ==
  CHOOSE e \in ({Cwd} \cup Prefixes(d)) \cap dirs :
    \A o \in ({Cwd} \cup Prefixes(d)) \cap dirs : Len(o) <= Len(e)

\* the place the image goes to can be written: the directories missing on
\* the way can be created and the image file can be created in the last
TargetWritable == DeepestExisting(Dirname(output_path)) \notin readonly

\* C10 as stated: for every output path whose location is writable,
\* including a bare file name, plot_leakage_histogram creates the missing
\* directories and writes the image; it fails only when the location is not
\* writable.
C10_WritableTargetSucceeds ==
  /\ (pc = "failed" /\ Loaded) => ~TargetWritable
  /\ pc \in {"plotted", "done"} =>
       /\ Dirname(output_path) \in dirs \cup {Cwd}
       /\ \E f \in files : f[1] = output_path

====
